---- MODULE Spec2Model ----
(***************************************************************************)
(* A model of pymps' PolygonEVP (src/pymps/mps.py): the eigenvalue         *)
(* registry and the solve_ordered_eigs search loop, and the multiplicity   *)
(* logic of eigenbasis_coef / weighted_subspace_sines.                     *)
(*                                                                         *)
(* Numbers.  A float lambda is a fixed-point integer in units of 1e-8, so  *)
(* the default xtol = 1e-8 is 1 and the safety margin 1e8*xtol is          *)
(* MarginFactor * xtol.  A value past MaxVal is held at MaxVal, which      *)
(* stands for the float's overflow to inf, and a value below 0 at 0.       *)
(***************************************************************************)
EXTENDS Integers, Sequences, FiniteSets

VARIABLES
    xtol,          \* the xtol the caller passes to solve_ordered_eigs
    ordered_eigs,  \* self._ordered_eigs: the eigenvalue registry
    pc,            \* position inside solve_ordered_eigs: idle, loop, minima
    k,             \* the argument k of the running call
    fevals,        \* local fevals
    extend,        \* local extend
    k_current,     \* local k_current
    start,         \* local start
    end_,          \* local end
    lev,           \* local lev
    h,             \* local h
    minima,        \* the minima of the running scan not yet looped over
    mult,          \* local mult of the last pass of the for loop
    nscans,        \* number of minsearch calls of the running call (held at MaxScans)
    at_call,       \* the registry as it was when the running call began
    detected,      \* for each accepted minimum, the multiplicity it was accepted with
    ret,           \* the last finished call: [eigs, fevals, k, nscans]
    la,            \* the linear-algebra query at one (lambda_, rtol, mtol):
                   \* its matrix and the outcome of each of the two methods
    ctor,          \* the last call of PolygonEVP(...): its point arguments
                   \* and how it ended
    call,          \* the last call of dlambda or gsvd_subspace_tans: its
                   \* inputs and how it ended
    self_rtol,     \* self.rtol, the instance default
    sines_cache,   \* the memo of subspace_sines: call arguments -> result
    memo,          \* the last call of subspace_sines: arguments, effective
                   \* rtol, result
    lru,           \* the memo of eigenbasis_coef: its keys, least recently
                   \* used first
    lru_ret        \* the last call of eigenbasis_coef: key, hit or miss

vars == <<xtol, ordered_eigs, pc, k, fevals, extend, k_current,
          start, end_, lev, h, minima, mult, nscans, at_call, detected, ret, la,
          ctor, call, self_rtol, sines_cache, memo, lru, lru_ret>>

solverVars == <<xtol, ordered_eigs, pc, k, fevals, extend, k_current,
                start, end_, lev, h, minima, mult, nscans, at_call, detected, ret>>

laVars == <<la>>
ctorVars == <<ctor>>
callVars == <<call>>
memoVars == <<self_rtol, sines_cache, memo>>
lruVars == <<lru, lru_ret>>

(***************************************************************************)
(* Bounds of the model.                                                    *)
(***************************************************************************)
MaxK == 2
MaxVal == 900000000
MaxMinima == 2
NSines == 2
MaxFe == 1
MaxFevals == 3
MaxScans == 2
NCols == 2
RMax == 2
SMax == 2
MaxNdim == 3
MaxDim == 3
MaxMemo == 3
MaxKeys == 130

(***************************************************************************)
(* Program constants.                                                      *)
(***************************************************************************)
MarginFactor == 100000000
PointsPerLevel == 20
ytol == 1
RtolUnit == 100
TanUnit == 100
LruMaxsize == 128

\* The polygon of the instance: a square of side 3.
area == 9
perimiter == 12
XtolSet == {1, 2}

(***************************************************************************)
(* Helpers on numbers and sequences.                                       *)
(***************************************************************************)
Abs(x) == IF x < 0 THEN -x ELSE x
MinOf(a, b) == IF a < b THEN a ELSE b
Sat(x) == IF x > MaxVal THEN MaxVal ELSE IF x < 0 THEN 0 ELSE x

SatAdd(x, d) == IF d > MaxVal - x THEN MaxVal ELSE Sat(x + d)

RECURSIVE ISqrtFrom(_, _, _)
ISqrtFrom(n, lo, hi) ==
    IF lo >= hi THEN lo
    ELSE LET mid == (lo + hi + 1) \div 2
         IN IF mid * mid <= n THEN ISqrtFrom(n, mid, hi)
                              ELSE ISqrtFrom(n, lo, mid - 1)
ISqrt(n) == ISqrtFrom(n, 0, 46340)

\* np.sort: the entry of s at index j goes to the place that is the number of
\* entries that sort before it or are it (ties by index).
Rank(s, j) ==
    Cardinality({m \in 1..Len(s) : s[m] < s[j] \/ (s[m] = s[j] /\ m <= j)})
npSort(s) ==
    IF \A i \in 1..(Len(s) - 1) : s[i] <= s[i + 1] THEN s
    ELSE [i \in 1..Len(s) |-> s[CHOOSE j \in 1..Len(s) : Rank(s, j) = i]]

Repeat(x, n) == [i \in 1..n |-> x]
Range(s) == {s[i] : i \in 1..Len(s)}
CountIn(s, x) == Cardinality({i \in 1..Len(s) : s[i] = x})
IsSorted(s) == \A i \in 1..(Len(s) - 1) : s[i] <= s[i + 1]
IsPrefix(s, t) == Len(s) <= Len(t) /\ \A i \in 1..Len(s) : s[i] = t[i]
SameMultiset(s, t) ==
    /\ Len(s) = Len(t)
    /\ \A x \in Range(s) \cup Range(t) : CountIn(s, x) = CountIn(t, x)
MaxIn(s) == CHOOSE x \in Range(s) : \A y \in Range(s) : y <= x

(***************************************************************************)
(* PolygonEVP: the registry property and the Weyl estimates.               *)
(***************************************************************************)
OrderedEigsGet == npSort(ordered_eigs)
OrderedEigsSet(arr) == npSort(arr)

lambda_1_lb == (576 * 3141593) \div area

\* weyl_k, to four decimals, for the indices a call can ask for.
WeylTable ==
    [kk \in 1..(2 * MaxK + 4) |->
        LET A == area
            P == perimiter
            N == 100 * P + ISqrt(10000 * P * P + 16 * 31416 * A * kk)
            q == (N * N) \div (4 * A * A)
        IN IF q > MaxVal \div 10000 THEN MaxVal ELSE q * 10000]

weyl_k(kk) == WeylTable[kk]

RECURSIVE Escalate(_, _, _)
Escalate(lv, kc, s0) ==
    IF weyl_k(kc + lv) + MarginFactor * xtol < s0
    THEN Escalate(lv + 1, kc, s0)
    ELSE lv

(***************************************************************************)
(* subspace_sines(x): the sines at x come from the basis, which is not     *)
(* part of these sources.  A query yields an ascending vector of NSines    *)
(* sines, each below ytol (0) or not (1); which one is the basis'          *)
(* choice.                                                                 *)
(***************************************************************************)
SinesSet == { [i \in 1..NSines |-> IF i <= j THEN 0 ELSE 1] : j \in 0..NSines }
MultOf(sines, tol) == Cardinality({i \in 1..Len(sines) : sines[i] < tol})

(***************************************************************************)
(* minsearch(obj, a, b, h, xtol): the search itself is not part of these   *)
(* sources.  It returns at most MaxMinima minima, in the order of the      *)
(* walk, all inside the bracket it was given, and a positive number of     *)
(* evaluations.  The points it may report are the bracket's ends and       *)
(* middle and the points at and around the registry's values; a bracket    *)
(* whose end is below its start holds no point.                            *)
(***************************************************************************)
CandPts(a, b) ==
    LET near == { e + d : e \in Range(ordered_eigs),
                          d \in {0 - xtol, 1 - xtol, 0, xtol} }
    IN { x \in {a, b, (a + b) \div 2} \cup near : a <= x /\ x <= b }

AscendingSeqs(S, n) ==
    { s \in UNION { [1..m -> S] : m \in 0..n } :
        \A i \in 1..(Len(s) - 1) : s[i] < s[i + 1] }

Minsearch(a, b) == AscendingSeqs(CandPts(a, b), MaxMinima)

NoRet == [eigs |-> <<>>, fevals |-> 0, k |-> 0 - 1, nscans |-> 0]

(***************************************************************************)
(* The multiplicity logic of eigenbasis_coef and weighted_subspace_sines.  *)
(* The matrix A = weights * n_basis(lambda_) comes from the basis; of it   *)
(* the model keeps what the two methods read: m_b, the vector              *)
(* r = |diag R| of the pivoted QR (non-increasing), whether its entries    *)
(* are finite, and the singular values of the block Q[:m_b,:cutoff] that   *)
(* the rtol of the query cuts out, in the order la.svd returns them        *)
(* (non-increasing, min(m_b, cutoff) of them).                             *)
(* rtol is in units of 1/RtolUnit, singular values and mtol in units of    *)
(* mtol's own scale.                                                       *)
(***************************************************************************)
NonIncreasing(s) == \A i \in 1..(Len(s) - 1) : s[i] >= s[i + 1]
Reverse(s) == [i \in 1..Len(s) |-> s[Len(s) + 1 - i]]

RSet == { r \in [1..NCols -> 0..RMax] : NonIncreasing(r) }
RtolSet == {0, RtolUnit \div 2, RtolUnit}
MtolSet == {1, 2}
SvSet(n) == { s \in [1..n -> 0..SMax] : NonIncreasing(s) }

\* cutoff = (r>r[0]*rtol).sum()
Cutoff(r, rtol) ==
    Cardinality({i \in 1..Len(r) : r[i] * RtolUnit > r[1] * rtol})

\* la.svd(Q[:m_b,:cutoff]): it raises on a block with a non-finite entry and
\* returns the singular values of a finite one.  On a block of no columns
\* the LAPACK wrapper of the installed scipy either raises or returns the
\* empty vector.
SvdOutcomes(A, cutoff) ==
    IF ~A.finite THEN { [raised |-> TRUE, s |-> <<>>] }
    ELSE IF cutoff = 0
         THEN { [raised |-> TRUE, s |-> <<>>], [raised |-> FALSE, s |-> <<>>] }
         ELSE { [raised |-> FALSE, s |-> A.s] }

\* (s<mtol).sum()
CountBelow(s, tol) == Cardinality({i \in 1..Len(s) : s[i] < tol})

\* eigenbasis_coef(lambda_, rtol, mtol): the error it raises, or the number
\* of columns of the C it returns.
EigenbasisCoefOutcomes(A, rtol, mtol) ==
    LET cutoff == Cutoff(A.r, rtol)
    IN { IF o.raised THEN [kind |-> "non_finite_svd", cols |-> 0]
         ELSE LET mult_ == CountBelow(o.s, mtol)
              IN IF mult_ = 0
                 THEN IF Len(o.s) = 0
                      THEN [kind |-> "index_error", cols |-> 0]
                      ELSE [kind |-> "zero_multiplicity", cols |-> 0]
                 ELSE [kind |-> "coef", cols |-> mult_]
         : o \in SvdOutcomes(A, cutoff) }

\* weighted_subspace_sines(lambda_, rtol): the error it raises, or the
\* vector of sines, ascending.
WeightedSubspaceSinesOutcomes(A, rtol) ==
    LET cutoff == Cutoff(A.r, rtol)
    IN { IF o.raised THEN [kind |-> "non_finite_svd", sines |-> <<>>]
         ELSE [kind |-> "sines", sines |-> Reverse(o.s)]
         : o \in SvdOutcomes(A, cutoff) }

NoOut == [kind |-> "none"]
NoLa == [op |-> "none"]

InitSolver ==
    /\ xtol \in XtolSet
    /\ ordered_eigs = <<>>
    /\ pc = "idle"
    /\ k = 0
    /\ fevals = 0
    /\ extend = FALSE
    /\ k_current = 0
    /\ start = 0
    /\ end_ = 0
    /\ lev = 1
    /\ h = 0
    /\ minima = <<>>
    /\ mult = 0
    /\ nscans = 0
    /\ at_call = <<>>
    /\ detected = << >>
    /\ ret = NoRet

NoCtor == [outcome |-> "none"]
NoCall == [fn |-> "none"]
NoMemo == [fn |-> "none"]
NoLruRet == [key |-> 0 - 1, hit |-> FALSE, again |-> FALSE, zero_computed |-> FALSE]

InitExt ==
    /\ ctor = NoCtor
    /\ call = NoCall
    /\ self_rtol = 0
    /\ sines_cache = << >>
    /\ memo = NoMemo
    /\ lru = << >>
    /\ lru_ret = NoLruRet

Init == InitSolver /\ la = NoLa /\ InitExt

(***************************************************************************)
(* solve_ordered_eigs(k): entry, lines 497-499.                            *)
(***************************************************************************)
Call ==
    /\ pc = "idle"
    /\ \E kk \in 0..MaxK : k' = kk
    /\ fevals' = 0
    /\ extend' = FALSE
    /\ nscans' = 0
    /\ at_call' = ordered_eigs
    /\ pc' = "loop"
    /\ UNCHANGED <<xtol, ordered_eigs, k_current, start, end_, lev, h,
                   minima, mult, detected, ret, la,
                   ctorVars, callVars, memoVars, lruVars>>

(***************************************************************************)
(* One pass of the while loop up to the minsearch call, lines 500-528.     *)
(***************************************************************************)
LoopTestOffByOne == Len(OrderedEigsGet) + 1 < k
LoopTest == Len(OrderedEigsGet) < k

StartPointFromScratch(kc) == IF extend THEN start ELSE lambda_1_lb

StartPoint(kc) ==
    IF extend THEN start
    ELSE IF kc = 0 THEN lambda_1_lb
    ELSE OrderedEigsGet[kc]

Bracket ==
    LET kc == Len(OrderedEigsGet)
        s0 == StartPoint(kc)
        lv == IF extend THEN lev ELSE Escalate(1, kc, s0)
        e  == IF extend THEN end_ ELSE weyl_k(kc + lv)
        n_pts == PointsPerLevel * lv
        hh == (e - s0) \div n_pts
        s1 == IF kc # 0 THEN SatAdd(s0, 0 - hh) ELSE s0
    IN [k_current |-> kc, lev |-> lv, end_ |-> e, h |-> hh, start |-> s1]

Scan ==
    /\ pc = "loop"
    /\ LoopTest
    /\ \E br \in {Bracket} :
          /\ k_current' = br.k_current
          /\ lev' = br.lev
          /\ end_' = br.end_
          /\ h' = br.h
          /\ start' = br.start
          /\ \E mins \in Minsearch(br.start, SatAdd(br.end_, br.h)) :
                minima' = mins
    /\ \E fe \in 1..MaxFe : fevals' = MinOf(fevals + fe, MaxFevals)
    /\ nscans' = MinOf(nscans + 1, MaxScans)
    /\ pc' = "minima"
    /\ UNCHANGED <<xtol, ordered_eigs, k, extend, mult, at_call,
                   detected, ret, la,
                   ctorVars, callVars, memoVars, lruVars>>

(***************************************************************************)
(* One pass of the for loop over the minima, lines 529-541.                *)
(***************************************************************************)
IsDuplicateExact(x) == \E i \in 1..Len(OrderedEigsGet) : x = OrderedEigsGet[i]

IsDuplicate(x) ==
    /\ Len(OrderedEigsGet) > 0
    /\ \E i \in 1..Len(OrderedEigsGet) : Abs(x - OrderedEigsGet[i]) < xtol

ConcatenateDropsOld(old, x, m) == Repeat(x, m)
ConcatenateOnce(old, x, m) == old \o <<x>>
Concatenate(old, x, m) == old \o Repeat(x, m)

ProcessMin ==
    /\ pc = "minima"
    /\ minima # <<>>
    /\ LET x_min == Head(minima)
       IN \E sines \in SinesSet :
            LET m == MultOf(sines, ytol)
                is_duplicate == IsDuplicate(x_min)
                add == ~is_duplicate /\ m > 0
                new == IF add
                       THEN OrderedEigsSet(Concatenate(OrderedEigsGet, x_min, m))
                       ELSE ordered_eigs
            IN /\ mult' = m
               /\ ordered_eigs' = new
               /\ detected' = IF add
                              THEN [y \in DOMAIN detected \cup {x_min} |->
                                      IF y = x_min THEN m ELSE detected[y]]
                              ELSE detected
               /\ minima' = IF add /\ Len(npSort(new)) >= k
                            THEN <<>> ELSE Tail(minima)
    /\ UNCHANGED <<xtol, pc, k, fevals, extend, k_current, start,
                   end_, lev, h, nscans, at_call, ret, la,
                   ctorVars, callVars, memoVars, lruVars>>

(***************************************************************************)
(* The end of a pass of the while loop, lines 542-550.                     *)
(***************************************************************************)
NoneFoundNever == FALSE
NoneFound == Len(OrderedEigsGet) = k_current

EndScan ==
    /\ pc = "minima"
    /\ minima = <<>>
    /\ IF NoneFound
       THEN LET gap == end_ - start
            IN /\ start' = end_
               /\ end_' = SatAdd(end_, gap)
               /\ extend' = TRUE
       ELSE /\ extend' = FALSE
            /\ UNCHANGED <<start, end_>>
    /\ mult' = 0
    /\ pc' = "loop"
    /\ UNCHANGED <<xtol, ordered_eigs, k, fevals, k_current, lev, h,
                   minima, nscans, at_call, detected, ret, la,
                   ctorVars, callVars, memoVars, lruVars>>

(***************************************************************************)
(* The loop test fails and the call returns, lines 500 and 551.  The       *)
(* locals die with the call.                                               *)
(***************************************************************************)
Return ==
    /\ pc = "loop"
    /\ ~LoopTest
    /\ ret' = [eigs |-> OrderedEigsGet, fevals |-> fevals, k |-> k,
               nscans |-> nscans]
    /\ pc' = "idle"
    /\ k' = 0
    /\ fevals' = 0
    /\ nscans' = 0
    /\ extend' = FALSE
    /\ k_current' = 0
    /\ start' = 0
    /\ end_' = 0
    /\ lev' = 1
    /\ h' = 0
    /\ UNCHANGED <<xtol, ordered_eigs, minima, mult, at_call,
                   detected, la,
                   ctorVars, callVars, memoVars, lruVars>>

(***************************************************************************)
(* A query of the linear algebra: the caller fixes lambda_ (and with it    *)
(* the matrix), rtol and mtol, then calls the two methods, in either       *)
(* order, once each.                                                       *)
(***************************************************************************)
LAInput ==
    /\ la.op = "none"
    /\ \E m_b \in 1..NCols, r \in RSet, fin \in BOOLEAN,
          rt \in RtolSet, mt \in MtolSet :
          \E s \in SvSet(MinOf(m_b, Cutoff(r, rt))) :
             la' = [op |-> "query",
                    A |-> [m_b |-> m_b, r |-> r, finite |-> fin, s |-> s],
                    rtol |-> rt, mtol |-> mt,
                    coef |-> NoOut, sines |-> NoOut]
    /\ UNCHANGED <<solverVars, ctorVars, callVars, memoVars, lruVars>>

EigenbasisCoef ==
    /\ la.op = "query"
    /\ la.coef = NoOut
    /\ \E out \in EigenbasisCoefOutcomes(la.A, la.rtol, la.mtol) :
          la' = [la EXCEPT !.coef = out]
    /\ UNCHANGED <<solverVars, ctorVars, callVars, memoVars, lruVars>>

WeightedSubspaceSines ==
    /\ la.op = "query"
    /\ la.sines = NoOut
    /\ \E out \in WeightedSubspaceSinesOutcomes(la.A, la.rtol) :
          la' = [la EXCEPT !.sines = out]
    /\ UNCHANGED <<solverVars, ctorVars, callVars, memoVars, lruVars>>

\* Both methods have answered; the caller is free to ask again.
LADone ==
    /\ la.op = "query"
    /\ la.coef # NoOut
    /\ la.sines # NoOut
    /\ la' = NoLa
    /\ UNCHANGED <<solverVars, ctorVars, callVars, memoVars, lruVars>>

NextLA == LAInput \/ EigenbasisCoef \/ WeightedSubspaceSines \/ LADone

SpecLA == Init /\ [][NextLA]_vars

(***************************************************************************)
(* PolygonEVP.__init__, lines 24-56: the processing of boundary_pts and    *)
(* interior_pts.  A point argument is an array, known by its shape, or     *)
(* (interior_pts) an int with the interior_method.  An int with method     *)
(* 'random' is replaced by the generated points, an array of shape (n, 2). *)
(***************************************************************************)
Shapes == UNION { [1..n -> 1..MaxDim] : n \in 0..MaxNdim }

BoundaryArgs == { [kind |-> "array", shape |-> s, method |-> "even"] : s \in Shapes }
InteriorArgs ==
    { [kind |-> "array", shape |-> s, method |-> "random"] : s \in Shapes }
    \cup { [kind |-> "int", shape |-> <<n>>, method |-> m] :
               n \in 1..MaxDim, m \in {"random", "other"} }

\* interior_points(x_v,y_v,n): n points, one row each.
GeneratedShape(n) == <<n, 2>>

\* np.asarray(pts).shape after lines 45-47 (an int is a 0-d array).
AsarrayShape(arg) ==
    IF arg.kind = "array" THEN arg.shape
    ELSE IF arg.method = "random" THEN GeneratedShape(arg.shape[1])
    ELSE << >>

\* .T: the axes in reverse order.
Transpose(shape) == [i \in 1..Len(shape) |-> shape[Len(shape) + 1 - i]]

\* Lines 37-42 (and 50-54): shape[0] and shape[1] are read before ndim is.
ShapeCheck(shape) ==
    IF Len(shape) < 1 THEN "IndexError"
    ELSE LET s == IF shape[1] = 2 THEN Transpose(shape) ELSE shape
         IN IF Len(s) < 2 THEN "IndexError"
            ELSE IF s[2] # 2 \/ Len(s) # 2 THEN "ValueError"
            ELSE "ok"

ConstructOutcome(b, i) ==
    LET cb == ShapeCheck(AsarrayShape(b))
    IN IF cb # "ok" THEN cb
       ELSE LET ci == ShapeCheck(AsarrayShape(i))
            IN IF ci # "ok" THEN ci ELSE "instance"

Construct ==
    /\ ctor = NoCtor
    /\ \E b \in BoundaryArgs, i \in InteriorArgs :
          ctor' = [boundary_pts |-> b, interior_pts |-> i,
                   outcome |-> ConstructOutcome(b, i)]
    /\ UNCHANGED <<solverVars, laVars, callVars, memoVars, lruVars>>

NextCtor == Construct

SpecCtor == Init /\ [][NextCtor]_vars

(***************************************************************************)
(* dlambda, lines 455-487, and gsvd_subspace_tans, lines 156-163.  A call  *)
(* ends with the first exception on its way, or with its return value.     *)
(* Which names are bound where the code reads them is part of the code:    *)
(* the parameters of a def are the names of its signature.                 *)
(***************************************************************************)
\* def sigma(self,lambda_,rtol=None,pivot=True), line 217
SigmaParams == {"self", "lambda_", "rtol", "pivot"}
\* def dlambda(self,lambda_,dx=None,dy=None,n=20,rtol=None,mtol=None), line 455
DlambdaParams == {"self", "lambda_", "dx", "dy", "n", "rtol", "mtol"}
\* def gsvd_subspace_tans(self,lambda_), line 157; rtol, A, m_b, C, S and _
\* are assigned in the body and so are locals, unbound until assigned.
GsvdParams == {"self", "lambda_"}

\* The inputs of a dlambda call: whether dx and dy are given and of length
\* n_vert, whether the module's globals (from .utils import *) hold a name
\* btol, the multiplicity of lambda_ and the columns of the gram tensors.
DlambdaArgs ==
    [dx_set : BOOLEAN, dy_set : BOOLEAN, len_ok : BOOLEAN,
     btol_global : BOOLEAN, mult : 0..NSines, gram_cols : 1..NSines]

DlambdaOutcome(a) ==
    IF a.dx_set # a.dy_set THEN "ValueError: dx and dy"
    ELSE IF a.dx_set /\ ~a.len_ok THEN "ValueError: length"
    ELSE IF "btol" \notin DlambdaParams /\ ~a.btol_global THEN "NameError"
    ELSE IF "mult_check" \notin SigmaParams THEN "TypeError"
    ELSE IF a.mult > 1 /\ ~a.dx_set THEN "ValueError: repeated"
    ELSE IF a.gram_cols # a.mult THEN "ValueError: mismatch"
    ELSE IF ~a.dx_set THEN "gradient"
    ELSE "directional"

DLambda ==
    /\ call = NoCall
    /\ \E a \in DlambdaArgs :
          call' = [fn |-> "dlambda", args |-> a, outcome |-> DlambdaOutcome(a),
                   tans |-> << >>]
    /\ UNCHANGED <<solverVars, laVars, ctorVars, memoVars, lruVars>>

\* The generalized singular value pairs (C[i], S[i]) of the boundary block
\* against the interior block, as gsvd returns them.
Inf == SMax * TanUnit + 1
GsvdPairs == UNION { [1..n -> (0..SMax) \X (0..SMax)] : n \in 1..NCols }

\* np.divide(C,S,out=np.full(C.shape,np.inf),where=(S!=0))[::-1]
TansOf(pairs) ==
    Reverse([i \in 1..Len(pairs) |->
               IF pairs[i][2] # 0 THEN (pairs[i][1] * TanUnit) \div pairs[i][2]
               ELSE Inf])

GsvdSubspaceTansOutcome(pairs) ==
    IF "rtol" \notin GsvdParams
    THEN [kind |-> "UnboundLocalError", tans |-> << >>]
    ELSE [kind |-> "tans", tans |-> TansOf(pairs)]

GsvdSubspaceTans ==
    /\ call = NoCall
    /\ \E pairs \in GsvdPairs :
          LET out == GsvdSubspaceTansOutcome(pairs)
          IN call' = [fn |-> "gsvd_subspace_tans", args |-> pairs,
                      outcome |-> out.kind, tans |-> out.tans]
    /\ UNCHANGED <<solverVars, laVars, ctorVars, memoVars, lruVars>>

NextCall == DLambda \/ GsvdSubspaceTans

SpecCall == Init /\ [][NextCall]_vars

(***************************************************************************)
(* The memo of subspace_sines, lines 113-116.  functools.cache keys an     *)
(* entry by the arguments as the caller wrote them: a call that omits rtol *)
(* has the key (self, lambda_), whatever self.rtol is.  A lambda_ is known *)
(* by r = |diag R| of its matrix, and a result by the cutoff of the block  *)
(* whose singular values it holds.  A call that raises stores nothing.     *)
(***************************************************************************)
None == 0 - 1
MemoLams == { r \in RSet : r[1] = RMax }
RtolArgs == {None} \cup RtolSet

\* if rtol is None: rtol = self.rtol
EffectiveRtol(arg) == IF arg = None THEN self_rtol ELSE arg

\* The body of subspace_sines at an rtol: the outcomes of lines 117-132.
SubspaceSinesBody(lam, rtol) ==
    LET cutoff == Cutoff(lam, rtol)
    IN { IF o.raised THEN [kind |-> "non_finite_svd", cutoff |-> cutoff]
         ELSE [kind |-> "sines", cutoff |-> cutoff]
         : o \in SvdOutcomes([finite |-> TRUE, s |-> << >>], cutoff) }

MemoKey(lam, arg) == <<lam, arg>>

\* evp.rtol = x
SetRtol ==
    /\ \E x \in RtolSet \ {self_rtol} : self_rtol' = x
    /\ UNCHANGED <<sines_cache, memo>>
    /\ UNCHANGED <<solverVars, laVars, ctorVars, callVars, lruVars>>

SubspaceSines ==
    /\ \E lam \in MemoLams, arg \in RtolArgs :
          LET key == MemoKey(lam, arg)
              eff == EffectiveRtol(arg)
          IN IF key \in DOMAIN sines_cache
             THEN /\ memo' = [fn |-> "subspace_sines", lam |-> lam, arg |-> arg,
                              rtol |-> eff, hit |-> TRUE,
                              result |-> sines_cache[key]]
                  /\ UNCHANGED sines_cache
             ELSE /\ Cardinality(DOMAIN sines_cache) < MaxMemo
                  /\ \E out \in SubspaceSinesBody(lam, eff) :
                        /\ memo' = [fn |-> "subspace_sines", lam |-> lam,
                                    arg |-> arg, rtol |-> eff, hit |-> FALSE,
                                    result |-> out]
                        /\ sines_cache' =
                              IF out.kind = "sines"
                              THEN [y \in DOMAIN sines_cache \cup {key} |->
                                      IF y = key THEN out ELSE sines_cache[y]]
                              ELSE sines_cache
    /\ UNCHANGED self_rtol
    /\ UNCHANGED <<solverVars, laVars, ctorVars, callVars, lruVars>>

NextMemo == SetRtol \/ SubspaceSines

SpecMemo == Init /\ [][NextMemo]_vars

(***************************************************************************)
(* The memo of eigenbasis_coef, lines 288-289: a bare @lru_cache, which    *)
(* is lru_cache(maxsize=128).  lru holds the keys, least recently used     *)
(* first.  The caller asks for key 0 or for a key never asked for before.  *)
(***************************************************************************)
MaxKeyIn(s) == IF s = << >> THEN 0 ELSE MaxIn(s)
Without(s, x) == SelectSeq(s, LAMBDA y : y # x)

\* A hit moves the key to the most recently used end; a miss adds it there
\* and, past maxsize, drops the least recently used key.
LruAfter(s, key) ==
    IF key \in Range(s) THEN Append(Without(s, key), key)
    ELSE IF Len(s) >= LruMaxsize THEN Append(Tail(s), key)
    ELSE Append(s, key)

EigenbasisCoefMemo ==
    /\ \E key \in {0} \cup ({MaxKeyIn(lru) + 1} \cap (1..MaxKeys)) :
          /\ lru_ret' = [key |-> key, hit |-> key \in Range(lru),
                         again |-> key = 0 /\ lru_ret.zero_computed,
                         zero_computed |-> lru_ret.zero_computed \/ key = 0]
          /\ lru' = LruAfter(lru, key)
    /\ UNCHANGED <<solverVars, laVars, ctorVars, callVars, memoVars>>

NextLru == EigenbasisCoefMemo

SpecLru == Init /\ [][NextLru]_vars

Next == Call \/ Scan \/ ProcessMin \/ EndScan \/ Return

Spec == Init /\ [][Next]_vars

(***************************************************************************)
(* The scheduling of a call: Python runs the loop on, so every step of a   *)
(* running call is eventually taken (each minsearch call returns).  The    *)
(* caller is free never to call again.                                     *)
(***************************************************************************)
FairSpec ==
    /\ Spec
    /\ WF_vars(Scan)
    /\ WF_vars(ProcessMin)
    /\ WF_vars(EndScan)
    /\ WF_vars(Return)

(***************************************************************************)
(* The claims about solve_ordered_eigs.                                    *)
(***************************************************************************)

\* C1: whenever solve_ordered_eigs(k) has returned, the registry holds at
\* least k entries and the returned sequence is the whole registry in
\* non-decreasing order.
C1_ReturnsWholeRegistry ==
    (pc = "idle" /\ ret.k >= 0) =>
        /\ Len(ordered_eigs) >= ret.k
        /\ Len(ret.eigs) >= ret.k
        /\ IsSorted(ret.eigs)
        /\ SameMultiset(ret.eigs, ordered_eigs)

C1_Witness ==
    pc = "idle" /\ ret.k = 2 /\ ret.nscans >= 1 /\ Len(ret.eigs) >= 2

\* C2: solve_ordered_eigs(k), k >= 1, returns exactly k eigenvalues.
C2_ExactlyK ==
    (pc = "idle" /\ ret.k >= 1) => Len(ret.eigs) = ret.k

\* C3: when a call with k is followed by a call with k + 1, the first result
\* is a prefix of the second and both are non-decreasing.
C3_PrefixExtension ==
    [][(pc = "loop" /\ pc' = "idle" /\ ret.k >= 0 /\ k = ret.k + 1) =>
          /\ IsPrefix(ret.eigs, ret'.eigs)
          /\ IsSorted(ret.eigs)
          /\ IsSorted(ret'.eigs)]_vars

\* C4: every step leaves each value of the registry at least as often in it
\* as before, and a value gains entries only as the minimum being looped
\* over, newly accepted (absent before).
C4_RegistryOnlyExtended ==
    [][\A y \in Range(ordered_eigs) \cup Range(ordered_eigs') :
          /\ CountIn(ordered_eigs', y) >= CountIn(ordered_eigs, y)
          /\ CountIn(ordered_eigs', y) > CountIn(ordered_eigs, y) =>
                /\ pc = "minima"
                /\ minima # <<>>
                /\ y = Head(minima)
                /\ CountIn(ordered_eigs, y) = 0]_vars

C4_Witness ==
    /\ Len(at_call) >= 1
    /\ Len(ordered_eigs) > Len(at_call)
    /\ Cardinality(Range(ordered_eigs)) >= 2

C6_AppendedMultTimes ==
    [][(pc = "minima" /\ minima # <<>>) =>
          LET x == Head(minima)
          IN /\ (mult' = 0 => ordered_eigs' = ordered_eigs)
             /\ (ordered_eigs' # ordered_eigs =>
                    /\ CountIn(ordered_eigs', x) = mult'
                    /\ Len(ordered_eigs') = Len(ordered_eigs) + mult')
             /\ DOMAIN detected' = Range(ordered_eigs')
             /\ \A y \in Range(ordered_eigs') :
                    CountIn(ordered_eigs', y) = detected'[y]]_vars

C6_Witness ==
    /\ pc = "minima"
    /\ mult = NSines
    /\ \E y \in Range(ordered_eigs) : CountIn(ordered_eigs, y) = NSines
    /\ \E y \in Range(ordered_eigs) : CountIn(ordered_eigs, y) = 1

\* C7: any two distinct values of the registry differ by at least xtol.
C7_DistinctValuesApart ==
    \A i, j \in 1..Len(ordered_eigs) :
        ordered_eigs[i] # ordered_eigs[j] =>
            Abs(ordered_eigs[i] - ordered_eigs[j]) >= xtol

\* Two minima of one scan (the first of a call on an empty registry) are
\* both in the registry, and so are two values exactly xtol apart.
C7_Witness ==
    /\ xtol = 2
    /\ pc = "minima"
    /\ k_current = 0
    /\ Cardinality(Range(ordered_eigs)) >= 2

\* C8: every eigenvalue of the registry is at least lambda_1_lb - xtol.
C8_WeylLowerBound ==
    \A i \in 1..Len(ordered_eigs) : ordered_eigs[i] >= lambda_1_lb - xtol

BlockSv == la.A.s

\* C10: on a finite matrix, eigenbasis_coef raises the zero-multiplicity
\* error exactly when no singular value of the rank-truncated boundary
\* block is below mtol, and otherwise returns a matrix with as many
\* columns as weighted_subspace_sines, at the same lambda_ and rtol, has
\* entries below mtol.
C10_ZeroMultiplicityExactly ==
    (la.op = "query" /\ la.A.finite /\ la.coef # NoOut) =>
        /\ (la.coef.kind = "zero_multiplicity") <=>
               (CountBelow(BlockSv, la.mtol) = 0)
        /\ (la.coef.kind # "zero_multiplicity" /\ la.sines # NoOut) =>
               /\ la.coef.kind = "coef"
               /\ la.sines.kind = "sines"
               /\ la.coef.cols = CountBelow(la.sines.sines, la.mtol)

(***************************************************************************)
(* The claims about the bracket of a scan.                                 *)
(***************************************************************************)

\* C17: a scan that is not extending ends its bracket at
\* weyl_k(k_current + lev) for the smallest lev >= 1 whose estimate is not
\* below start by more than the margin, and when minsearch is called end is
\* above start (start as set at lines 505-508) and h is positive.
C17_BracketEndPastStart ==
    [][(pc = "loop" /\ pc' = "minima" /\ ~extend) =>
          LET kc == Len(OrderedEigsGet)
              s0 == StartPoint(kc)
          IN /\ k_current' = kc
             /\ lev' >= 1
             /\ end_' = weyl_k(kc + lev')
             /\ ~(weyl_k(kc + lev') + MarginFactor * xtol < s0)
             /\ \A l \in 1..(lev' - 1) :
                    weyl_k(kc + l) + MarginFactor * xtol < s0
             /\ h' = (end_' - s0) \div (PointsPerLevel * lev')
             /\ end_' > s0
             /\ end_' > start'
             /\ h' > 0]_vars

\* C16: when a scan has added nothing to the registry the call goes on in
\* extend mode with the bracket [end, end + (end - start)], which lies past
\* the previous end; it neither returns nor raises, the next scan keeps that
\* end and level and starts at the previous end (less the ghost step when
\* the registry is not empty), leaving no gap, and a scan that has added an
\* eigenvalue leaves extend mode.
C16_ExtendDoublesWindow ==
    [][/\ (pc = "minima" /\ pc' = "loop" /\ Len(OrderedEigsGet) = k_current) =>
            /\ extend'
            /\ start' = end_
            /\ end_' = SatAdd(end_, end_ - start)
            /\ end_' >= end_
            /\ Len(OrderedEigsGet) < k
            /\ ret' = ret
            /\ ordered_eigs' = ordered_eigs
       /\ (pc = "minima" /\ pc' = "loop" /\ Len(OrderedEigsGet) # k_current) =>
            ~extend'
       /\ (pc = "loop" /\ extend) => pc' = "minima"
       /\ (pc = "loop" /\ pc' = "minima" /\ extend) =>
            /\ end_' = end_
            /\ lev' = lev
            /\ h' = (end_ - start) \div (PointsPerLevel * lev)
            /\ start' = IF k_current' # 0 THEN SatAdd(start, 0 - h') ELSE start
            /\ start' <= start
            /\ SatAdd(end_', h') >= end_]_vars

(***************************************************************************)
(* The claim about the constructor.                                        *)
(***************************************************************************)

\* A point argument that is, or after the transposition of a 2-row array
\* becomes, a 2-D array with two columns.
ReducesToTwoColumns(arg) ==
    LET s == AsarrayShape(arg)
    IN Len(s) = 2 /\ (s[1] = 2 \/ s[2] = 2)

\* C12: a construction whose boundary_pts or interior_pts does not reduce
\* to a 2-D array with two columns ends with the ValueError of the shape
\* check, never with another exception and never with an instance.
C12_BadShapeIsValueError ==
    (ctor.outcome # "none"
        /\ (~ReducesToTwoColumns(ctor.boundary_pts)
              \/ ~ReducesToTwoColumns(ctor.interior_pts)))
    => ctor.outcome = "ValueError"

(***************************************************************************)
(* The claims about dlambda and gsvd_subspace_tans.                        *)
(***************************************************************************)

\* C11: dlambda with neither dx nor dy ends with the repeated-eigenvalue
\* error when the multiplicity of lambda_ is above 1 and returns the
\* gradient pair when it is 1 (and the gram tensors have one column).
C11_DlambdaDecidedByMultiplicity ==
    (call.fn = "dlambda" /\ ~call.args.dx_set /\ ~call.args.dy_set) =>
        /\ call.args.mult > 1 => call.outcome = "ValueError: repeated"
        /\ (call.args.mult = 1 /\ call.args.gram_cols = 1) =>
              call.outcome = "gradient"

\* C13: gsvd_subspace_tans raises nothing and returns the tangents C/S of
\* the pairs in ascending order, Inf where S = 0.
C13_GsvdTansAscending ==
    (call.fn = "gsvd_subspace_tans") =>
        /\ call.outcome = "tans"
        /\ Len(call.tans) = Len(call.args)
        /\ IsSorted(call.tans)
        /\ \A i \in 1..Len(call.args) :
              call.args[i][2] = 0 => call.tans[Len(call.args) + 1 - i] = Inf

(***************************************************************************)
(* The claims about the memoization.                                       *)
(***************************************************************************)

\* C14: the value a call of subspace_sines returns is one the body returns
\* at the effective rtol of the call: the rtol argument or, when omitted,
\* self.rtol at the time of the call.
C14_MemoMatchesEffectiveTolerance ==
    (memo.fn = "subspace_sines" /\ memo.result.kind = "sines") =>
        memo.result \in SubspaceSinesBody(memo.lam, memo.rtol)

\* C15: a query of eigenbasis_coef at a key computed before is a cache hit,
\* however many other keys were queried in between.
C15_MemoNeverEvicts ==
    lru_ret.again => lru_ret.hit

====
